---- MODULE Spec2Model ----
(***************************************************************************)
(* defaultHubConnection of hubconnection.go: the lifecycle flag and the    *)
(* abort watcher, the guarded send path (writeMessage), Close, the         *)
(* unguarded LastWriteStamp read and the Receive assembly loop with its    *)
(* goroutines.  Every goroutine has a position variable; channel           *)
(* operations and mutex sections are the steps.                            *)
(***************************************************************************)
EXTENDS Integers, Sequences, FiniteSets, TLC

\* ---------------------------------------------------------------- bounds
\* the clock time.Now() reads takes the values 0..MaxTime
MaxTime == 2
\* guarded sends and Close calls started in one run
MaxCalls == 2
\* number of body bytes of the inbound message before its terminator
MsgLen == 3

\* ------------------------------------------------------------ parameters
\* newHubConnection's maximumReceiveMessageSize: size of the scratch buffer data
maximumReceiveMessageSize == 2

\* goroutines calling the send operations
Senders == {"s1", "s2"}
\* channels a higher layer may register in abortChans
Waiters == {"ch1", "ch2"}
\* argument values of the send operations
Ids == {"1"}
Targets == {"m"}
ArgLists == {<<"x">>}
StreamIdLists == {<<"s">>}
Items == {"item"}
Results == {"r"}
ErrorTexts == {"boom"}

\* ---------------------------------------------------------------- errors
\* an error value is its chain of messages, outermost first; nil is empty
Nil == <<>>
\* context.Canceled, the value of ctx.Err() once a context has ended
Canceled == <<"context canceled">>
\* an error of the codec's WriteMessage / of the transport's Read
WriteErr == <<"write failed">>
ReadErr == <<"read failed">>
\* an error of the codec's ReadMessage: more data needed / malformed message
EOF == <<"EOF">>
ParseErr == <<"parse failed">>

\* eris.Wrap(err, msg): nil stays nil, any other error gets msg in front
Wrap(err, msg) == IF err = Nil THEN Nil ELSE <<msg>> \o err

\* context.CancelFunc: ends the context once, later calls change nothing
cancelFunc(err) == IF err = Nil THEN Canceled ELSE err

VARIABLES
  \* defaultHubConnection
  connected, abortChans, lastWriteStamp, mx,
  \* c.ctx.Err() and c.connection.Context().Err()
  ctxErr, connCtxErr,
  \* the abort watcher goroutine and the delivery goroutines it starts
  watcher, pending, received, drains,
  \* the clock
  now,
  \* writeMessage, per calling goroutine
  spc, smsg, stime, sconn, wstate, se, sres, slogged, sAfterAbort,
  \* the codec's writer: number of WriteMessage calls, the last message handed over
  calls, writeCount, lastWritten,
  \* observations of the callers of Start, Abort, IsConnected, LastWriteStamp, Close
  started, aborted, icObs, lpc, lwsObs, closeObs, scall,
  \* Receive: caller, assembly goroutine, read goroutine, channels, transport; reads
  \* and incompletes count the transport reads and the codec's incomplete reports of a call
  rpc, rres, gpc, buf, data, n, rdstate, readResCh, recvResCh, inbound,
  rxAll, offered, reads, incompletes, readFailed, abortedWhileBlocked

engineVars == <<connected, abortChans, lastWriteStamp, mx, ctxErr, connCtxErr>>
watcherVars == <<watcher, pending, received, drains>>
sendVars == <<spc, smsg, stime, sconn, wstate, se, sres, slogged, sAfterAbort>>
codecVars == <<calls, writeCount, lastWritten>>
obsVars == <<started, aborted, icObs, lpc, lwsObs, closeObs, scall>>
recvVars == <<rpc, rres, gpc, buf, data, n, rdstate, readResCh, recvResCh, inbound,
              rxAll, offered, reads, incompletes, readFailed, abortedWhileBlocked>>
vars == <<engineVars, watcherVars, now, sendVars, codecVars, obsVars, recvVars>>

\* ------------------------------------------------------------- messages
NoMsg == [Type |-> 0]
hubMessage(type) == [Type |-> type]
invocationMessage(type, id, target, args, streamIds) ==
  [Type |-> type, InvocationID |-> id, Target |-> target, Arguments |-> args,
   StreamIds |-> streamIds]
streamItemMessage(type, id, item) == [Type |-> type, InvocationID |-> id, Item |-> item]
completionMessage(type, id, result, error) ==
  [Type |-> type, InvocationID |-> id, Result |-> result, Error |-> error]
closeMessage(type, error, allowReconnect) ==
  [Type |-> type, Error |-> error, AllowReconnect |-> allowReconnect]

\* the inbound byte stream: body bytes 1..MsgLen, then the record terminator
Terminator == 0
Bad == 9
GoodStream == [i \in 1..(MsgLen + 1) |-> IF i = MsgLen + 1 THEN Terminator ELSE i]
Streams == {GoodStream, <<Bad, Terminator>>}
NoResult == [message |-> <<>>, err |-> Nil]

\* ----------------------------------------------------------------- Init
InitEngine ==
  /\ connected = FALSE
  /\ abortChans = {}
  /\ lastWriteStamp = 0
  /\ mx = "free"
  /\ ctxErr = Nil
  /\ connCtxErr = Nil
  /\ watcher = "wait"
  /\ pending = {}
  /\ received = {}
  /\ drains = 0
  /\ now = 0
  /\ spc = [t \in Senders |-> "idle"]
  /\ smsg = [t \in Senders |-> NoMsg]
  /\ stime = [t \in Senders |-> 0]
  /\ sconn = [t \in Senders |-> FALSE]
  /\ wstate = [t \in Senders |-> "none"]
  /\ se = [t \in Senders |-> Nil]
  /\ sres = [t \in Senders |-> Nil]
  /\ slogged = [t \in Senders |-> FALSE]
  /\ sAfterAbort = [t \in Senders |-> FALSE]
  /\ calls = 0
  /\ writeCount = 0
  /\ lastWritten = NoMsg
  /\ started = FALSE
  /\ aborted = FALSE
  /\ icObs = [seen |-> FALSE, res |-> FALSE, afterStart |-> FALSE, afterCancel |-> FALSE]
  /\ lpc = "idle"
  /\ lwsObs = 0
  /\ closeObs = [count |-> 0, err |-> Nil, dead |-> FALSE, error |-> "", allowReconnect |-> FALSE]
  /\ scall = [t \in Senders |-> [op |-> "none"]]
  /\ rpc = "idle"
  /\ rres = NoResult
  /\ gpc = "none"
  /\ buf = <<>>
  /\ data = [i \in 1..maximumReceiveMessageSize |-> 0]
  /\ n = 0
  /\ rdstate = "none"
  /\ readResCh = <<>>
  /\ recvResCh = <<>>
  /\ rxAll = <<>>
  /\ offered = <<>>
  /\ reads = 0
  /\ incompletes = 0
  /\ readFailed = FALSE
  /\ abortedWhileBlocked = FALSE

Init == InitEngine /\ inbound = GoodStream

\* ------------------------------------------------------------ lifecycle
\* Start: connected = true under the mutex
Start ==
  /\ mx = "free"
  /\ connected' = TRUE
  /\ started' = TRUE
  /\ UNCHANGED <<abortChans, lastWriteStamp, mx, ctxErr, connCtxErr, watcherVars, now,
                 sendVars, codecVars, aborted, icObs, lpc, lwsObs, closeObs, scall, recvVars>>

\* the Receive caller waits in its select for a transport read that is in flight
ReceiveBlockedOnRead == rpc = "r_select" /\ gpc = "g_select" /\ rdstate = "running"

\* Abort: c.cancelFunc()
Abort ==
  /\ ctxErr' = cancelFunc(ctxErr)
  /\ aborted' = TRUE
  /\ abortedWhileBlocked' = (abortedWhileBlocked \/ ReceiveBlockedOnRead)
  /\ UNCHANGED <<connected, abortChans, lastWriteStamp, mx, connCtxErr, watcherVars, now,
                 sendVars, codecVars, started, icObs, lpc, lwsObs, closeObs, scall,
                 rpc, rres, gpc, buf, data, n, rdstate, readResCh, recvResCh, inbound,
                 rxAll, offered, reads, incompletes, readFailed>>

\* the transport's own context ends; c.ctx is its child and ends with it
UpstreamCancel ==
  /\ connCtxErr = Nil
  /\ connCtxErr' = cancelFunc(connCtxErr)
  /\ ctxErr' = cancelFunc(ctxErr)
  /\ UNCHANGED <<connected, abortChans, lastWriteStamp, mx, watcherVars, now,
                 sendVars, codecVars, obsVars, recvVars>>

\* the watcher as it would be with the sends made in place: it stops at the first
\* ch <- err, inside the section under c.mx
WatcherSendsInPlace ==
  /\ watcher = "wait"
  /\ ctxErr # Nil
  /\ mx = "free"
  /\ watcher' = "done"
  /\ IF connected /\ abortChans # {}
       THEN /\ LET ch == CHOOSE c \in abortChans : TRUE IN
                 pending' = pending \cup
                   {[ch |-> ch, err |-> Wrap(connCtxErr, "connection canceled")]}
            /\ mx' = "watcher"
            /\ UNCHANGED <<abortChans, connected, drains>>
       ELSE /\ connected' = FALSE
            /\ drains' = IF connected THEN drains + 1 ELSE drains
            /\ UNCHANGED <<pending, abortChans, mx>>
  /\ UNCHANGED <<lastWriteStamp, ctxErr, connCtxErr, received, now,
                 sendVars, codecVars, obsVars, recvVars>>

\* the goroutine of newHubConnection: <-c.ctx.Done(), then the section under c.mx
Watcher ==
  /\ watcher = "wait"
  /\ ctxErr # Nil
  /\ mx = "free"
  /\ watcher' = "done"
  /\ IF connected
       THEN /\ pending' = pending \cup
                 { [ch |-> ch, err |-> Wrap(connCtxErr, "connection canceled")] :
                   ch \in abortChans }
            /\ abortChans' = {}
            /\ connected' = FALSE
            /\ drains' = drains + 1
       ELSE UNCHANGED <<pending, abortChans, connected, drains>>
  /\ UNCHANGED <<lastWriteStamp, mx, ctxErr, connCtxErr, received, now,
                 sendVars, codecVars, obsVars, recvVars>>

\* a delivery goroutine's ch <- err completes when the channel's owner receives
WaiterReceive(d) ==
  /\ d \in pending
  /\ pending' = pending \ {d}
  /\ received' = received \cup {d}
  /\ UNCHANGED <<engineVars, watcher, drains, now, sendVars, codecVars, obsVars, recvVars>>

\* a higher layer appends a channel to abortChans
RegisterWaiter(ch) ==
  /\ mx = "free"
  /\ ch \notin abortChans
  /\ \A d \in pending \cup received : d.ch # ch
  /\ abortChans' = abortChans \cup {ch}
  /\ UNCHANGED <<connected, lastWriteStamp, mx, ctxErr, connCtxErr, watcherVars, now,
                 sendVars, codecVars, obsVars, recvVars>>

\* IsConnected: a read of connected under the mutex
IsConnected ==
  /\ mx = "free"
  /\ icObs' = [seen |-> TRUE, res |-> connected, afterStart |-> started,
               afterCancel |-> ctxErr # Nil]
  /\ UNCHANGED <<engineVars, watcherVars, now, sendVars, codecVars,
                 started, aborted, lpc, lwsObs, closeObs, scall, recvVars>>

\* time passes
Tick ==
  /\ now < MaxTime
  /\ now' = now + 1
  /\ UNCHANGED <<engineVars, watcherVars, sendVars, codecVars, obsVars, recvVars>>

\* LastWriteStamp: return c.lastWriteStamp, no mutex taken
LastWriteStampCall ==
  /\ lpc = "idle"
  /\ lpc' = "read"
  /\ UNCHANGED <<engineVars, watcherVars, now, sendVars, codecVars,
                 started, aborted, icObs, lwsObs, closeObs, scall, recvVars>>

\* the values an unsynchronised read of lastWriteStamp can produce: the stored one,
\* or, while a writer is storing, the one being stored or a torn mix (MaxTime + 1)
LastWriteStampValues ==
  {lastWriteStamp} \cup
  UNION { {stime[t], MaxTime + 1} : t \in {u \in Senders : spc[u] = "w_store"} }

LastWriteStampRead ==
  /\ lpc = "read"
  /\ \E v \in LastWriteStampValues : lwsObs' = v
  /\ lpc' = "idle"
  /\ UNCHANGED <<engineVars, watcherVars, now, sendVars, codecVars,
                 started, aborted, icObs, closeObs, scall, recvVars>>

\* Close as it would be were it routed like the guarded sends: a failed write aborts
CloseAbortsOnFailure(errorText, allowReconnect) ==
  /\ calls < MaxCalls
  /\ calls' = calls + 1
  /\ \E err \in {Nil, WriteErr} :
       /\ closeObs' = [count |-> closeObs.count + 1, err |-> err, dead |-> ctxErr # Nil,
                    error |-> errorText, allowReconnect |-> allowReconnect]
       /\ ctxErr' = IF err # Nil THEN cancelFunc(ctxErr) ELSE ctxErr
  /\ writeCount' = writeCount + 1
  /\ lastWritten' = closeMessage(7, errorText, allowReconnect)
  /\ UNCHANGED <<connected, abortChans, lastWriteStamp, mx, connCtxErr, watcherVars, now,
                 sendVars, started, aborted, icObs, lpc, lwsObs, scall, recvVars>>

\* Close: the codec's writer is called directly
Close(errorText, allowReconnect) ==
  /\ calls < MaxCalls
  /\ calls' = calls + 1
  /\ \E err \in {Nil, WriteErr} :
       closeObs' = [count |-> closeObs.count + 1, err |-> err, dead |-> ctxErr # Nil,
                    error |-> errorText, allowReconnect |-> allowReconnect]
  /\ writeCount' = writeCount + 1
  /\ lastWritten' = closeMessage(7, errorText, allowReconnect)
  /\ UNCHANGED <<engineVars, watcherVars, now, sendVars,
                 started, aborted, icObs, lpc, lwsObs, scall, recvVars>>

\* ------------------------------------------------------ guarded send path
\* the variables no step of writeMessage changes
sendFrame == <<connected, abortChans, connCtxErr, watcherVars, now, obsVars, recvVars>>

\* writeMessage(message) is entered by goroutine t
writeMessage(t, message) ==
  /\ spc[t] \in {"idle", "returned"}
  /\ calls < MaxCalls
  /\ calls' = calls + 1
  /\ spc' = [spc EXCEPT ![t] = "w_lock"]
  /\ smsg' = [smsg EXCEPT ![t] = message]
  /\ sconn' = [sconn EXCEPT ![t] = FALSE]
  /\ wstate' = [wstate EXCEPT ![t] = "none"]
  /\ se' = [se EXCEPT ![t] = Nil]
  /\ sres' = [sres EXCEPT ![t] = Nil]
  /\ slogged' = [slogged EXCEPT ![t] = FALSE]
  /\ sAfterAbort' = [sAfterAbort EXCEPT ![t] = aborted]
  /\ UNCHANGED <<lastWriteStamp, mx, ctxErr, stime, writeCount, lastWritten,
                 connected, abortChans, connCtxErr, watcherVars, now,
                 started, aborted, icObs, lpc, lwsObs, closeObs, recvVars>>

\* the call goroutine t made: the operation and the arguments supplied
called(t, call) == scall' = [scall EXCEPT ![t] = call]

SendInvocation(t, id, target, args) ==
  /\ writeMessage(t, invocationMessage(1, id, target, args, <<>>))
  /\ called(t, [op |-> "SendInvocation", id |-> id, target |-> target, args |-> args])

SendStreamInvocation(t, id, target, args, streamIds) ==
  /\ writeMessage(t, invocationMessage(4, id, target, args, streamIds))
  /\ called(t, [op |-> "SendStreamInvocation", id |-> id, target |-> target, args |-> args,
                streamIds |-> streamIds])

StreamItem(t, id, item) ==
  /\ writeMessage(t, streamItemMessage(2, id, item))
  /\ called(t, [op |-> "StreamItem", id |-> id, item |-> item])

\* Completion with the result and the error text stored in each other's field
CompletionSwapped(t, id, result, error) ==
  /\ writeMessage(t, completionMessage(3, id, error, result))
  /\ called(t, [op |-> "Completion", id |-> id, result |-> result, error |-> error])

Completion(t, id, result, error) ==
  /\ writeMessage(t, completionMessage(3, id, result, error))
  /\ called(t, [op |-> "Completion", id |-> id, result |-> result, error |-> error])

Ping(t) ==
  /\ writeMessage(t, hubMessage(6))
  /\ called(t, [op |-> "Ping"])

\* a lock that excludes nobody
CanLockAlways(t) == TRUE

\* c.mx.Lock() can return
CanLock(t) == mx = "free"

\* c.mx.Lock()
WriteLock(t) ==
  /\ spc[t] = "w_lock"
  /\ CanLock(t)
  /\ mx' = t
  /\ spc' = [spc EXCEPT ![t] = "w_now"]
  /\ UNCHANGED <<lastWriteStamp, ctxErr, smsg, stime, sconn, wstate, se, sres, slogged,
                 sAfterAbort, codecVars, sendFrame>>

\* time.Now(), the right-hand side of the assignment
WriteNow(t) ==
  /\ spc[t] = "w_now"
  /\ stime' = [stime EXCEPT ![t] = now]
  /\ spc' = [spc EXCEPT ![t] = "w_store"]
  /\ UNCHANGED <<lastWriteStamp, mx, ctxErr, smsg, sconn, wstate, se, sres, slogged,
                 sAfterAbort, codecVars, sendFrame>>

\* c.lastWriteStamp = <that time>
WriteStore(t) ==
  /\ spc[t] = "w_store"
  /\ lastWriteStamp' = stime[t]
  /\ spc' = [spc EXCEPT ![t] = "w_unlock"]
  /\ UNCHANGED <<mx, ctxErr, smsg, stime, sconn, wstate, se, sres, slogged,
                 sAfterAbort, codecVars, sendFrame>>

\* c.mx.Unlock()
WriteUnlock(t) ==
  /\ spc[t] = "w_unlock"
  /\ mx' = "free"
  /\ spc' = [spc EXCEPT ![t] = "w_check"]
  /\ UNCHANGED <<lastWriteStamp, ctxErr, smsg, stime, sconn, wstate, se, sres, slogged,
                 sAfterAbort, codecVars, sendFrame>>

\* return err, after logging a failure
sendReturn(t, err) ==
  /\ sres' = [sres EXCEPT ![t] = err]
  /\ slogged' = [slogged EXCEPT ![t] = (err # Nil)]
  /\ spc' = [spc EXCEPT ![t] = "returned"]

\* if !c.IsConnected() { return eris.Wrap(c.ctx.Err(), ...) }; else start the writer
WriteCheck(t) ==
  /\ spc[t] = "w_check"
  /\ mx = "free"
  /\ sconn' = [sconn EXCEPT ![t] = connected]
  /\ IF ~connected
       THEN /\ sendReturn(t, Wrap(ctxErr, "hubConnection canceled"))
            /\ UNCHANGED wstate
       ELSE /\ wstate' = [wstate EXCEPT ![t] = "running"]
            /\ spc' = [spc EXCEPT ![t] = "w_select"]
            /\ UNCHANGED <<sres, slogged>>
  /\ UNCHANGED <<lastWriteStamp, mx, ctxErr, smsg, stime, se, sAfterAbort, codecVars,
                 sendFrame>>

\* go func() { e <- c.protocol.WriteMessage(message, c.connection) }()
WriteMessageRun(t) ==
  /\ wstate[t] = "running"
  /\ \E err \in {Nil, WriteErr} : se' = [se EXCEPT ![t] = err]
  /\ wstate' = [wstate EXCEPT ![t] = "done"]
  /\ writeCount' = writeCount + 1
  /\ lastWritten' = smsg[t]
  /\ UNCHANGED <<lastWriteStamp, mx, ctxErr, spc, smsg, stime, sconn, sres, slogged,
                 sAfterAbort, calls, sendFrame>>

\* select, case <-c.ctx.Done()
WriteSelectDone(t) ==
  /\ spc[t] = "w_select"
  /\ ctxErr # Nil
  /\ spc' = [spc EXCEPT ![t] = "w_wait"]
  /\ UNCHANGED <<lastWriteStamp, mx, ctxErr, smsg, stime, sconn, wstate, se, sres, slogged,
                 sAfterAbort, codecVars, sendFrame>>

\* the cancellation returned without waiting for the writer
WriteWaitAbandons(t) ==
  /\ spc[t] = "w_wait"
  /\ sendReturn(t, Wrap(ctxErr, "hubConnection canceled"))
  /\ UNCHANGED <<lastWriteStamp, mx, ctxErr, smsg, stime, sconn, wstate, se,
                 sAfterAbort, codecVars, sendFrame>>

\* <-e, then return the cancellation
WriteWait(t) ==
  /\ spc[t] = "w_wait"
  /\ wstate[t] = "done"
  /\ sendReturn(t, Wrap(ctxErr, "hubConnection canceled"))
  /\ UNCHANGED <<lastWriteStamp, mx, ctxErr, smsg, stime, sconn, wstate, se,
                 sAfterAbort, codecVars, sendFrame>>

\* the write's error returned without aborting the connection
WriteSelectErrNoAbort(t) ==
  /\ spc[t] = "w_select"
  /\ wstate[t] = "done"
  /\ sendReturn(t, se[t])
  /\ UNCHANGED <<lastWriteStamp, mx, ctxErr, smsg, stime, sconn, wstate, se,
                 sAfterAbort, codecVars, sendFrame>>

\* select, case err := <-e
WriteSelectErr(t) ==
  /\ spc[t] = "w_select"
  /\ wstate[t] = "done"
  /\ ctxErr' = IF se[t] # Nil THEN cancelFunc(ctxErr) ELSE ctxErr
  /\ sendReturn(t, se[t])
  /\ UNCHANGED <<lastWriteStamp, mx, smsg, stime, sconn, wstate, se,
                 sAfterAbort, codecVars, sendFrame>>

\* ---------------------------------------------------------------- Receive
\* the variables no step of Receive changes
recvFrame == <<connected, abortChans, lastWriteStamp, mx, connCtxErr, watcherVars, now,
               sendVars, codecVars, obsVars>>

Min(a, b) == IF a < b THEN a ELSE b

\* HubProtocol.ReadMessage(&buf): a message ends at the first Terminator; without one
\* the codec reads the buffer empty and reports incomplete
ReadMessage(b) ==
  IF \E i \in 1..Len(b) : b[i] = Terminator
    THEN LET i == CHOOSE j \in 1..Len(b) :
                    b[j] = Terminator /\ \A k \in 1..(j - 1) : b[k] # Terminator
             body == SubSeq(b, 1, i - 1)
             bad == \E k \in 1..Len(body) : body[k] = Bad
         IN [message |-> IF bad THEN <<>> ELSE body, complete |-> TRUE,
             err |-> IF bad THEN ParseErr ELSE Nil, rest |-> SubSeq(b, i + 1, Len(b))]
    ELSE [message |-> <<>>, complete |-> FALSE, err |-> EOF, rest |-> <<>>]

\* Receive without the check of c.ctx.Err() at its head
ReceiveUnchecked ==
  /\ rpc \in {"idle", "returned"}
  /\ abortedWhileBlocked' = FALSE
  /\ readFailed' = FALSE
  /\ rres' = NoResult
  /\ rpc' = "r_select"
  /\ recvResCh' = <<>>
  /\ gpc' = "parse"
  /\ buf' = <<>>
  /\ data' = [i \in 1..maximumReceiveMessageSize |-> 0]
  /\ n' = 0
  /\ rdstate' = "none"
  /\ readResCh' = <<>>
  /\ rxAll' = <<>>
  /\ offered' = <<>>
  /\ reads' = 0
  /\ incompletes' = 0
  /\ UNCHANGED <<ctxErr, inbound, recvFrame>>

\* Receive is called: the early return, or the assembly goroutine is started
Receive ==
  /\ rpc \in {"idle", "returned"}
  /\ abortedWhileBlocked' = FALSE
  /\ readFailed' = FALSE
  /\ IF ctxErr # Nil
       THEN /\ rres' = [message |-> <<>>, err |-> Wrap(ctxErr, "hubConnection canceled")]
            /\ rpc' = "returned"
            /\ UNCHANGED <<gpc, buf, data, n, rdstate, readResCh, recvResCh,
                           rxAll, offered, reads, incompletes>>
       ELSE /\ rres' = NoResult
            /\ rpc' = "r_select"
            /\ recvResCh' = <<>>
            /\ gpc' = "parse"
            /\ buf' = <<>>
            /\ data' = [i \in 1..maximumReceiveMessageSize |-> 0]
            /\ n' = 0
            /\ rdstate' = "none"
            /\ readResCh' = <<>>
            /\ rxAll' = <<>>
            /\ offered' = <<>>
            /\ reads' = 0
            /\ incompletes' = 0
  /\ UNCHANGED <<ctxErr, inbound, recvFrame>>

\* the refill of an incomplete parse: buf.Write(data[:n])
Refill(rest) == rest \o SubSeq(data, 1, n)

\* the loop head treating a parse failure like a failed read: it aborts the connection
AssemblyParseAborts ==
  /\ gpc = "parse"
  /\ offered' = buf
  /\ LET r == ReadMessage(buf) IN
       IF r.complete
         THEN /\ buf' = r.rest
              /\ recvResCh' = <<[message |-> r.message, err |-> r.err]>>
              /\ gpc' = "complete"
              /\ ctxErr' = IF r.err # Nil THEN cancelFunc(ctxErr) ELSE ctxErr
              /\ UNCHANGED <<rdstate, readResCh, incompletes>>
         ELSE /\ buf' = Refill(r.rest)
              /\ readResCh' = <<>>
              /\ rdstate' = "running"
              /\ gpc' = "g_select"
              /\ incompletes' = incompletes + 1
              /\ UNCHANGED <<ctxErr, recvResCh>>
  /\ UNCHANGED <<rpc, rres, data, n, inbound, rxAll, reads, readFailed,
                 abortedWhileBlocked, recvFrame>>

\* the loop head: ReadMessage(&buf); complete: deliver; incomplete: refill, start a read
AssemblyParse ==
  /\ gpc = "parse"
  /\ offered' = buf
  /\ LET r == ReadMessage(buf) IN
       IF r.complete
         THEN /\ buf' = r.rest
              /\ recvResCh' = <<[message |-> r.message, err |-> r.err]>>
              /\ gpc' = "complete"
              /\ UNCHANGED <<rdstate, readResCh, incompletes>>
         ELSE /\ buf' = Refill(r.rest)
              /\ readResCh' = <<>>
              /\ rdstate' = "running"
              /\ gpc' = "g_select"
              /\ incompletes' = incompletes + 1
              /\ UNCHANGED recvResCh
  /\ UNCHANGED <<ctxErr, rpc, rres, data, n, inbound, rxAll, reads, readFailed,
                 abortedWhileBlocked, recvFrame>>

\* the read goroutine: c.connection.Read(data) returns k bytes, or fails
TransportRead ==
  /\ rdstate = "running"
  /\ rdstate' = "done"
  /\ reads' = reads + 1
  /\ UNCHANGED incompletes
  /\ \/ \E k \in 1..Min(maximumReceiveMessageSize, Len(inbound)) :
          LET chunk == SubSeq(inbound, 1, k) IN
            /\ n' = k
            /\ data' = chunk \o SubSeq(data, k + 1, Len(data))
            /\ buf' = buf \o chunk
            /\ inbound' = SubSeq(inbound, k + 1, Len(inbound))
            /\ rxAll' = rxAll \o chunk
            /\ readResCh' = <<[message |-> k, err |-> Nil]>>
            /\ UNCHANGED readFailed
     \/ /\ n' = 0
        /\ readResCh' = <<[message |-> 0, err |-> ReadErr]>>
        /\ readFailed' = (readFailed \/ ctxErr = Nil)
        /\ UNCHANGED <<data, buf, inbound, rxAll>>
  /\ UNCHANGED <<ctxErr, rpc, rres, gpc, recvResCh, offered, abortedWhileBlocked, recvFrame>>

\* the inner select reading again after a successful read, without asking the codec
AssemblySelectReadRereads ==
  /\ gpc = "g_select"
  /\ readResCh # <<>>
  /\ readResCh' = <<>>
  /\ LET readRes == Head(readResCh) IN
       IF readRes.err # Nil
         THEN /\ ctxErr' = cancelFunc(ctxErr)
              /\ recvResCh' = <<readRes>>
              /\ gpc' = "readfailed"
              /\ UNCHANGED <<n, rdstate>>
         ELSE /\ n' = readRes.message
              /\ gpc' = IF inbound = <<>> THEN "parse" ELSE "g_select"
              /\ rdstate' = IF inbound = <<>> THEN rdstate ELSE "running"
              /\ UNCHANGED <<ctxErr, recvResCh>>
  /\ UNCHANGED <<rpc, rres, buf, data, inbound, rxAll, offered, reads,
                 incompletes, readFailed, abortedWhileBlocked, recvFrame>>

\* the read's error passed on without aborting the connection
AssemblySelectReadNoAbort ==
  /\ gpc = "g_select"
  /\ readResCh # <<>>
  /\ readResCh' = <<>>
  /\ LET readRes == Head(readResCh) IN
       IF readRes.err # Nil
         THEN /\ recvResCh' = <<readRes>>
              /\ gpc' = "readfailed"
              /\ UNCHANGED n
         ELSE /\ n' = readRes.message
              /\ gpc' = "parse"
              /\ UNCHANGED recvResCh
  /\ UNCHANGED <<ctxErr, rpc, rres, buf, data, rdstate, inbound, rxAll, offered, reads,
                 incompletes, readFailed, abortedWhileBlocked, recvFrame>>

\* inner select, case readRes := <-readResCh
AssemblySelectRead ==
  /\ gpc = "g_select"
  /\ readResCh # <<>>
  /\ readResCh' = <<>>
  /\ LET readRes == Head(readResCh) IN
       IF readRes.err # Nil
         THEN /\ ctxErr' = cancelFunc(ctxErr)
              /\ recvResCh' = <<readRes>>
              /\ gpc' = "readfailed"
              /\ UNCHANGED n
         ELSE /\ n' = readRes.message
              /\ gpc' = "parse"
              /\ UNCHANGED <<ctxErr, recvResCh>>
  /\ UNCHANGED <<rpc, rres, buf, data, rdstate, inbound, rxAll, offered, reads,
                 incompletes, readFailed, abortedWhileBlocked, recvFrame>>

\* inner select, case <-c.ctx.Done()
AssemblySelectDone ==
  /\ gpc = "g_select"
  /\ ctxErr # Nil
  /\ recvResCh' = <<[message |-> <<>>, err |-> Wrap(ctxErr, "hubConnection canceled")]>>
  /\ gpc' = "canceled"
  /\ UNCHANGED <<ctxErr, rpc, rres, buf, data, n, rdstate, readResCh, inbound, rxAll,
                 offered, reads, incompletes, readFailed, abortedWhileBlocked, recvFrame>>

\* outer select, case recvRes := <-recvResCh
ReceiveSelectRes ==
  /\ rpc = "r_select"
  /\ recvResCh # <<>>
  /\ rres' = [message |-> Head(recvResCh).message, err |-> Head(recvResCh).err]
  /\ recvResCh' = <<>>
  /\ rpc' = "returned"
  /\ UNCHANGED <<ctxErr, gpc, buf, data, n, rdstate, readResCh, inbound, rxAll,
                 offered, reads, incompletes, readFailed, abortedWhileBlocked, recvFrame>>

\* the outer cancellation case reporting the transport context's error, as line 51 does
ReceiveSelectDoneConnErr ==
  /\ rpc = "r_select"
  /\ ctxErr # Nil
  /\ rres' = [message |-> <<>>, err |-> Wrap(connCtxErr, "hubConnection canceled")]
  /\ rpc' = "returned"
  /\ UNCHANGED <<ctxErr, gpc, buf, data, n, rdstate, readResCh, recvResCh, inbound, rxAll,
                 offered, reads, incompletes, readFailed, abortedWhileBlocked, recvFrame>>

\* outer select, case <-c.ctx.Done()
ReceiveSelectDone ==
  /\ rpc = "r_select"
  /\ ctxErr # Nil
  /\ rres' = [message |-> <<>>, err |-> Wrap(ctxErr, "hubConnection canceled")]
  /\ rpc' = "returned"
  /\ UNCHANGED <<ctxErr, gpc, buf, data, n, rdstate, readResCh, recvResCh, inbound, rxAll,
                 offered, reads, incompletes, readFailed, abortedWhileBlocked, recvFrame>>

\* ------------------------------------------------------- specifications
Lifecycle == Start \/ Abort \/ UpstreamCancel \/ Watcher

\* the lifecycle, IsConnected and the waiters
Next ==
  \/ Lifecycle
  \/ IsConnected
  \/ \E ch \in Waiters : RegisterWaiter(ch)
  \/ \E d \in pending : WaiterReceive(d)

Spec == Init /\ [][Next]_vars

\* the owner of ch1 keeps reading its channel; nothing is assumed of the owner of ch2
FairWaitSpec ==
  Spec /\ WF_vars(\E d \in pending : d.ch = "ch1" /\ WaiterReceive(d))

WriteSteps(t) ==
  \/ WriteLock(t)
  \/ WriteNow(t)
  \/ WriteStore(t)
  \/ WriteUnlock(t)
  \/ WriteCheck(t)
  \/ WriteMessageRun(t)
  \/ WriteSelectDone(t)
  \/ WriteWait(t)
  \/ WriteSelectErr(t)

\* the send operations and Close over the lifecycle, the clock standing still
SendNext ==
  \/ Lifecycle
  \/ \E e \in ErrorTexts, a \in BOOLEAN : Close(e, a)
  \/ \E t \in Senders, id \in Ids, target \in Targets, args \in ArgLists :
       SendInvocation(t, id, target, args)
  \/ \E t \in Senders, id \in Ids, target \in Targets, args \in ArgLists,
        streamIds \in StreamIdLists :
       SendStreamInvocation(t, id, target, args, streamIds)
  \/ \E t \in Senders, id \in Ids, item \in Items : StreamItem(t, id, item)
  \/ \E t \in Senders, id \in Ids, result \in Results, error \in ErrorTexts :
       Completion(t, id, result, error)
  \/ \E t \in Senders : Ping(t)
  \/ \E t \in Senders : WriteSteps(t)

SendSpec == Init /\ [][SendNext]_vars

\* every send operation and Close on a connection that is started and aborted
MsgNext ==
  \/ Start
  \/ Abort
  \/ \E e \in ErrorTexts, a \in BOOLEAN : Close(e, a)
  \/ \E t \in Senders, id \in Ids, target \in Targets, args \in ArgLists :
       SendInvocation(t, id, target, args)
  \/ \E t \in Senders, id \in Ids, target \in Targets, args \in ArgLists,
        streamIds \in StreamIdLists :
       SendStreamInvocation(t, id, target, args, streamIds)
  \/ \E t \in Senders, id \in Ids, item \in Items : StreamItem(t, id, item)
  \/ \E t \in Senders, id \in Ids, result \in Results, error \in ErrorTexts :
       Completion(t, id, result, error)
  \/ \E t \in Senders : Ping(t)
  \/ \E t \in Senders : WriteSteps(t)

MsgSpec == Init /\ [][MsgNext]_vars

\* concurrent pings over the whole lifecycle, the clock standing still
PingNext ==
  \/ Lifecycle
  \/ \E t \in Senders : Ping(t)
  \/ \E t \in Senders : WriteSteps(t)

PingSpec == Init /\ [][PingNext]_vars

\* pings against a running clock and the LastWriteStamp reader
StampNext ==
  \/ Start
  \/ Abort
  \/ Tick
  \/ LastWriteStampCall
  \/ LastWriteStampRead
  \/ \E t \in Senders : Ping(t)
  \/ \E t \in Senders : WriteSteps(t)

StampSpec == Init /\ [][StampNext]_vars

\* Close and the pings of one goroutine against a running clock, over the lifecycle
CloseNext ==
  \/ Lifecycle
  \/ Tick
  \/ \E e \in ErrorTexts, a \in BOOLEAN : Close(e, a)
  \/ Ping("s1")
  \/ WriteSteps("s1")

CloseSpec == Init /\ [][CloseNext]_vars

ReceiveSteps ==
  \/ Receive
  \/ AssemblyParse
  \/ TransportRead
  \/ AssemblySelectRead
  \/ AssemblySelectDone
  \/ ReceiveSelectRes
  \/ ReceiveSelectDone

\* Receive next to the pings of one goroutine; the transport's context stays live
IoNext ==
  \/ Start
  \/ Abort
  \/ Watcher
  \/ ReceiveSteps
  \/ Ping("s1")
  \/ WriteSteps("s1")

IoInit == InitEngine /\ inbound \in Streams

IoSpec == IoInit /\ [][IoNext]_vars

\* Receive of a malformed message next to the pings of one goroutine, over the lifecycle
\* and a running clock
ParseNext ==
  \/ Lifecycle
  \/ Tick
  \/ ReceiveSteps
  \/ Ping("s1")
  \/ WriteSteps("s1")

ParseInit == InitEngine /\ inbound = <<Bad, Terminator>>

ParseSpec == ParseInit /\ [][ParseNext]_vars

\* Receive over the lifecycle
RecvNext ==
  \/ Lifecycle
  \/ Receive
  \/ AssemblyParse
  \/ TransportRead
  \/ AssemblySelectRead
  \/ AssemblySelectDone
  \/ ReceiveSelectRes
  \/ ReceiveSelectDone

RecvInit == InitEngine /\ inbound \in Streams

RecvSpec == RecvInit /\ [][RecvNext]_vars

\* the goroutines of Receive are scheduled fairly; the transport is not: a pending
\* read may never return
FairRecvSpec ==
  /\ RecvSpec
  /\ WF_vars(ReceiveSelectRes \/ ReceiveSelectDone)
  /\ WF_vars(AssemblyParse \/ AssemblySelectRead \/ AssemblySelectDone)

\* ================================================================ claims
CancelErr == Wrap(Canceled, "hubConnection canceled")

\* C1: IsConnected() returns false before Start, true after Start until the first
\* cancellation event, and false in every call made after that event.
C1_IsConnectedLifecycle ==
  icObs.seen =>
    /\ (~icObs.afterStart => ~icObs.res)
    /\ (icObs.afterStart /\ ~icObs.afterCancel => icObs.res)
    /\ (icObs.afterCancel => ~icObs.res)

\* C2: a guarded send called after Abort() has returned never invokes the codec's
\* WriteMessage and returns a failure, never success.
C2_NoSendAfterAbort ==
  \A t \in Senders :
    sAfterAbort[t] =>
      /\ wstate[t] = "none"
      /\ (spc[t] = "returned" => sres[t] # Nil)

\* C3: when the codec reports complete, the buffer it was offered is exactly the
\* concatenation, in order, of all bytes the transport reads of this call returned.
C3_Reassembly == gpc = "complete" => offered = rxAll

\* C4: a guarded send whose IsConnected check finds connected false returns a non-nil
\* failure and does not invoke the codec's WriteMessage.
C4_NotConnectedFails ==
  \A t \in Senders :
    (spc[t] = "returned" /\ ~sconn[t]) => (sres[t] # Nil /\ wstate[t] = "none")

\* C5: once the watcher has observed the cancellation, the waiter list has been
\* drained exactly once: never zero times, never more than once.
C5_DrainedExactlyOnce == watcher = "done" => drains = 1

C7_ReadErrorReturned ==
  (rpc = "returned" /\ readFailed /\ ~aborted /\ connCtxErr = Nil) => rres.err = ReadErr

\* C8: every Close invokes the codec's WriteMessage exactly once and leaves connected,
\* lastWriteStamp and both cancellation contexts unchanged, whether the write fails or not.
C8_CloseFrame ==
  [][closeObs.count' # closeObs.count =>
       /\ writeCount' = writeCount + 1
       /\ connected' = connected
       /\ lastWriteStamp' = lastWriteStamp
       /\ ctxErr' = ctxErr
       /\ connCtxErr' = connCtxErr]_vars

\* a Close whose write failed left a started, stamped connection alive
C8_Witness ==
  /\ closeObs.count > 0
  /\ closeObs.err = WriteErr
  /\ ~closeObs.dead
  /\ connected
  /\ ctxErr = Nil
  /\ lastWriteStamp > 0

\* C9: whenever a send is storing lastWriteStamp it holds the mutex and no reader is
\* at its read of the field: every access is made under the mutex.
C9_MutexGuardsFields ==
  \A t \in Senders : spc[t] = "w_store" => (mx = t /\ lpc # "read")

\* the latest time the sends have sampled
LatestStamp == CHOOSE m \in {stime[t] : t \in Senders} : \A u \in Senders : stime[u] <= m

\* C10: lastWriteStamp never decreases, and when no send is in progress it equals the
\* latest of the times the sends recorded.
C10_StampMonotone ==
  /\ [][lastWriteStamp' >= lastWriteStamp]_vars
  /\ []((\A t \in Senders : spc[t] \in {"idle", "returned"}) => lastWriteStamp = LatestStamp)

\* two sends have returned with different stamps, the later one is stored
C10_Witness ==
  /\ \A t \in Senders : spc[t] = "returned"
  /\ stime["s1"] < stime["s2"]
  /\ lastWriteStamp = stime["s2"]

\* the wire shape of the message each operation must hand to the codec
WireMessage(call) ==
  CASE call.op = "SendInvocation" ->
         [Type |-> 1, InvocationID |-> call.id, Target |-> call.target,
          Arguments |-> call.args, StreamIds |-> <<>>]
    [] call.op = "StreamItem" -> [Type |-> 2, InvocationID |-> call.id, Item |-> call.item]
    [] call.op = "Completion" ->
         [Type |-> 3, InvocationID |-> call.id, Result |-> call.result, Error |-> call.error]
    [] call.op = "SendStreamInvocation" ->
         [Type |-> 4, InvocationID |-> call.id, Target |-> call.target,
          Arguments |-> call.args, StreamIds |-> call.streamIds]
    [] call.op = "Ping" -> [Type |-> 6]
    [] OTHER -> NoMsg

\* C11: whenever a send's writer goroutine or Close calls WriteMessage, the message it
\* hands over carries the operation's protocol tag (1, 2, 3, 4, 6, 7) and exactly the
\* arguments the caller supplied.
C11_MessageShape ==
  [][/\ \A t \in Senders :
          (wstate[t] = "running" /\ wstate'[t] = "done")
            => lastWritten' = WireMessage(scall[t])
     /\ closeObs'.count # closeObs.count
          => lastWritten' = [Type |-> 7, Error |-> closeObs'.error,
                             AllowReconnect |-> closeObs'.allowReconnect]]_vars

\* a Completion's message has been written by the codec
C11_Witness ==
  \E t \in Senders :
    /\ scall[t].op = "Completion"
    /\ wstate[t] = "done"
    /\ lastWritten = [Type |-> 3, InvocationID |-> "1", Result |-> "r", Error |-> "boom"]

\* C12: once connected has been true (Start has run), it never changes from false to
\* true again, so it goes from true to false at most once.
C12_NeverReconnects == [][(started /\ ~connected) => ~connected']_vars

\* C13: a guarded send has never returned while the WriteMessage call it started is
\* still in flight.
C13_WriteAwaited == \A t \in Senders : spc[t] = "returned" => wstate[t] # "running"

\* a send that saw the cancellation in its select, waited for its write and then
\* returned the cancellation failure
C13_Witness ==
  \E t \in Senders :
    /\ spc[t] = "returned"
    /\ sconn[t]
    /\ wstate[t] = "done"
    /\ se[t] = Nil
    /\ sres[t] = CancelErr

\* C14: when a Receive whose transport read failed, or a guarded send whose write
\* failed, has returned, the engine's cancellation context has ended.
C14_IoFailureAborts ==
  /\ (rpc = "returned" /\ readFailed) => ctxErr # Nil
  /\ \A t \in Senders :
       (spc[t] = "returned" /\ wstate[t] = "done" /\ se[t] # Nil) => ctxErr # Nil

\* a Receive returned its read's error and a send its write's error, and the context
\* has ended although nobody called Abort and the transport's context is live
C14_Witness ==
  /\ rpc = "returned"
  /\ readFailed
  /\ rres.err = ReadErr
  /\ spc["s1"] = "returned"
  /\ sres["s1"] = WriteErr
  /\ ctxErr = Canceled
  /\ ~aborted
  /\ connCtxErr = Nil

\* the step in which the codec reports a parse failure
ParseFailureReported ==
  /\ gpc = "parse"
  /\ ReadMessage(buf).complete
  /\ ReadMessage(buf).err # Nil
  /\ gpc' = "complete"

\* C19: the step in which ReadMessage reports a parse failure sends that failure to the
\* caller and changes neither the cancellation contexts, connected, the waiters nor
\* lastWriteStamp; a Receive that returns while the context is live returns that failure.
C19_ParseFailureFrame ==
  /\ [][ParseFailureReported =>
          /\ recvResCh' = <<[message |-> <<>>, err |-> ReadMessage(buf).err]>>
          /\ UNCHANGED <<ctxErr, connCtxErr, connected, abortChans, lastWriteStamp,
                         watcher, mx>>]_vars
  /\ []((rpc = "returned" /\ gpc = "complete" /\ ctxErr = Nil) => rres.err = ParseErr)

\* Receive returned the parse failure on a started, stamped connection that is alive
C19_Witness ==
  /\ rpc = "returned"
  /\ rres.err = ParseErr
  /\ ctxErr = Nil
  /\ connected
  /\ lastWriteStamp > 0

\* C15: every value the watcher hands to a waiter channel is a non-nil failure, whether
\* the cancellation came from Abort or from the transport's context.
C15_WaitersGetFailure == \A d \in pending \cup received : d.err # Nil

\* the watcher's step
WatcherRuns == watcher = "wait" /\ watcher' = "done"

\* C16: the watcher's step ends with connected false and the mutex released, whatever
\* the waiters do; it hands one notification to every registered channel; IsConnected
\* can run once the watcher is done; every notification can be received whichever
\* others are still unread, and the owner of ch1, who reads, eventually receives its
\* own while ch2 may stay unread for ever.
C16_UnreadWaiterBlocksNothing ==
  /\ [][WatcherRuns =>
          /\ ~connected'
          /\ mx' = "free"
          /\ connected => \A ch \in abortChans : \E d \in pending' : d.ch = ch]_vars
  /\ [](watcher = "done" => ENABLED IsConnected)
  /\ [](\A d \in pending : ENABLED WaiterReceive(d))
  /\ (\E d \in pending : d.ch = "ch1") ~> (\E d \in received : d.ch = "ch1")

\* ch2 is still unread, ch1 has its notification and IsConnected returned false after
C16_Witness ==
  /\ watcher = "done"
  /\ \E d \in pending : d.ch = "ch2"
  /\ \E d \in received : d.ch = "ch1"
  /\ icObs.seen /\ icObs.afterStart /\ icObs.afterCancel /\ ~icObs.res

\* a step taken while no Receive call is in progress and the context has ended
DeadAndIdle == rpc \in {"idle", "returned"} /\ ctxErr # Nil

\* C17: a Receive called after the context ended returns the cancellation failure at
\* once: it starts no assembly goroutine, so no ReadMessage call and no transport read
\* is made for it, and the transport and the buffers are left as they were.
C17_DeadReceiveReadsNothing ==
  [][DeadAndIdle =>
       /\ rpc' # "r_select"
       /\ (rpc' # rpc \/ rres'.err # rres.err) =>
            /\ rpc' = "returned"
            /\ rres'.err = CancelErr
            /\ UNCHANGED <<gpc, rdstate, reads, incompletes, offered, buf, data, n,
                           inbound, rxAll, readResCh, recvResCh>>]_vars

\* Receive returned the cancellation failure with no goroutine ever started
C17_Witness ==
  /\ rpc = "returned"
  /\ rres.err = CancelErr
  /\ gpc = "none"
  /\ reads = 0
  /\ incompletes = 0
  /\ offered = <<>>

\* C18: every incomplete report of the codec is followed by one transport read and no
\* read is made without one: at each ReadMessage call and once the codec reported
\* complete the reads of the call equal its incomplete reports and none is in flight;
\* a read returns at most maximumReceiveMessageSize bytes; a message that took at most
\* two reads is returned as the codec decodes the bytes read, when the context is live.
C18_OneReadPerIncomplete ==
  /\ reads <= incompletes
  /\ incompletes <= reads + 1
  /\ gpc \in {"parse", "complete"} => (reads = incompletes /\ rdstate # "running")
  /\ n <= maximumReceiveMessageSize
  /\ (rpc = "returned" /\ gpc = "complete" /\ ctxErr = Nil /\ reads <= 2) =>
       /\ rres.err = ReadMessage(rxAll).err
       /\ rres.message = ReadMessage(rxAll).message

\* the message of MsgLen bytes came in two reads and was returned decoded
C18_Witness ==
  /\ rpc = "returned"
  /\ gpc = "complete"
  /\ ctxErr = Nil
  /\ reads = 2
  /\ incompletes = 2
  /\ rxAll = GoodStream
  /\ rres.err = Nil
  /\ rres.message = SubSeq(GoodStream, 1, MsgLen)

\* C20: a guarded send that has returned a non-nil failure returned it with the
\* cancellation context ended; while the context is live a send returns only nil.
C20_FailureMeansDead ==
  \A t \in Senders : (spc[t] = "returned" /\ sres[t] # Nil) => ctxErr # Nil

\* one send failed in its write and aborted the connection; after the watcher ran the
\* other found connected false; nobody called Abort and the transport's context is live
C20_Witness ==
  /\ spc["s1"] = "returned" /\ sconn["s1"] /\ sres["s1"] = WriteErr
  /\ spc["s2"] = "returned" /\ ~sconn["s2"] /\ sres["s2"] = CancelErr
  /\ ~aborted
  /\ connCtxErr = Nil

====
